---- MODULE Spec2Model ----
(***************************************************************************)
(* RevuMe front end: the session / fetch / readiness-probe state machine   *)
(* of App (the version of App.jsx with the availability prober)           *)
(* and of the HTTP wrapper api.js.                                         *)
(*                                                                         *)
(* One action is one run-to-completion piece of JavaScript: an event       *)
(* handler, or the continuation of an async function after an await.       *)
(* React state updates made by one such piece are batched; the effects     *)
(* that the resulting render triggers (the refresh effect, the detail-view *)
(* synchronisation effect) run as part of the same action (Commit).        *)
(* A callback keeps the values of the render that created it: a refresh    *)
(* carries the token of its closure (field tok), not the current one.      *)
(***************************************************************************)
EXTENDS Integers, Sequences, FiniteSets, TLC

(***************************************************************************)
(* Bounds of the model.                                                    *)
(***************************************************************************)
MaxLogins == 2
MaxInFlight == 2
MaxReviews == 2
MaxClicks == 2
MaxListCalls == 3
MaxRows == 3

(***************************************************************************)
(* Text.  A string the code searches in is a sequence of one-character     *)
(* strings, so that includes() and toLowerCase() are computed, not assumed.*)
(***************************************************************************)
UpperCase == <<"A","B","C","D","E","F","G","H","I","J","K","L","M",
               "N","O","P","Q","R","S","T","U","V","W","X","Y","Z">>
LowerCase == <<"a","b","c","d","e","f","g","h","i","j","k","l","m",
               "n","o","p","q","r","s","t","u","v","w","x","y","z">>
DigitChars == <<"0","1","2","3","4","5","6","7","8","9">>

toLowerCase(s) ==
    [i \in 1..Len(s) |->
        IF \E k \in 1..26 : UpperCase[k] = s[i]
        THEN LowerCase[CHOOSE k \in 1..26 : UpperCase[k] = s[i]]
        ELSE s[i]]

includes(s, needle) ==
    \E i \in 0..(Len(s) - Len(needle)) : SubSeq(s, i + 1, i + Len(needle)) = needle

\* `${res.status}` for a three-digit status
StatusDigits(status) ==
    << DigitChars[(status \div 100) + 1],
       DigitChars[((status \div 10) % 10) + 1],
       DigitChars[(status % 10) + 1] >>

\* res.statusText: the reason phrase of the status line
StatusText(status) ==
    CASE status = 401 -> <<"U","n","a","u","t","h","o","r","i","z","e","d">>
      [] status = 500 -> <<"I","n","t","e","r","n","a","l"," ","S","e","r","v","e","r"," ","E","r","r","o","r">>
      [] status = 503 -> <<"S","e","r","v","i","c","e"," ","U","n","a","v","a","i","l","a","b","l","e">>
      [] OTHER -> <<"E","r","r","o","r">>

\* Response bodies the server or the gateway in front of it can send with an error.
BodyEmpty == <<>>
BodyDetail == <<"{","\"","d","e","t","a","i","l","\"",":","\"","b","a","d","\"","}">>
BodyRay == <<"r","a","y"," ","7","4","0","1","c">>
Bodies == {BodyEmpty, BodyDetail, BodyRay}

\* fetch() rejecting: no HTTP status at all
FailedToFetch == [name |-> "TypeError",
                  message |-> <<"F","a","i","l","e","d"," ","t","o"," ","f","e","t","c","h">>]

\* http(): throw new Error(`HTTP ${res.status} ${res.statusText} - ${text}`)
HttpError(status, text) ==
    [name |-> "Error",
     message |-> <<"H","T","T","P"," ">> \o StatusDigits(status) \o <<" ">>
                 \o StatusText(status) \o <<" ","-"," ">> \o text]

STARTUP_ERROR_CODES == {502, 503, 504, 522, 524}

isLikelyBootingError(error) ==
    LET message == toLowerCase(error.message) IN
    IF message = <<>> THEN FALSE
    ELSE IF error.name = "TypeError" THEN TRUE
    ELSE IF \/ includes(message, <<"f","a","i","l","e","d"," ","t","o"," ","f","e","t","c","h">>)
            \/ includes(message, <<"n","e","t","w","o","r","k">>)
            \/ includes(message, <<"t","i","m","e","o","u","t">>)
         THEN TRUE
    ELSE \E code \in STARTUP_ERROR_CODES :
            includes(message, <<"h","t","t","p"," ">> \o StatusDigits(code))

\* message.includes("401") of refresh, handleDelete and the editor's submit
Mentions401(error) == includes(error.message, <<"4","0","1">>)

(***************************************************************************)
(* Values.                                                                 *)
(***************************************************************************)
TokenNames == <<"tok1", "tok2", "tok3", "tok4">>
NoToken == ""
Tokens == {TokenNames[n] : n \in 1..MaxLogins}
Users == {"ann", "bob"}
null == "null"

\* A review as far as this layer reads it.  NoReview stands for null, Template
\* for the {} that the Add button passes to setEditing.
NoReview == [id |-> -1, owner |-> "", category |-> ""]
Template == [id |-> 0, owner |-> "", category |-> ""]
Categories == {"brunch"}
TYPES == {"place", "food", "movie", "book", "product"}
SortKeys == {"updated", "rating", "title", "date"}
Terms == {"", "cafe"}
TypeChoices == {"", "food"}

\* Texts shown to the user (only their identity and emptiness matter here)
MsgRequired == <<"Email and password are required.">>
MsgWarming == <<"Warming up the RevuMe servers... this can take up to a minute if they've been idle.">>
MsgUnable == <<"Unable to process request.">>

attempts == 12

VARIABLES
    \* React state of App
    rows, term, type, sortBy, activeCat, editing, viewing, token, user,
    authError, authBusy, apiStatus,
    \* React state of Editor (kept by the mounted Editor instance)
    form,
    \* refs of App
    apiCheckInFlight, refreshRetryRef,
    \* api.js module variable and window.localStorage
    authToken, storedToken, storedUser, storageOk,
    \* suspended async functions and pending timers
    mountPc, probers, inflight, timers,
    \* how many times listReviews() has been called while the user has not acted
    \* yet (counted up to MaxListCalls, and 0 once the user has acted)
    listCalls,
    \* the backing service
    svc, db, nextId, sessions,
    \* the user: how many times they have acted so far
    clicks

appVars == <<rows, term, type, sortBy, activeCat, editing, viewing, token, user,
             authError, authBusy, apiStatus, form, apiCheckInFlight, refreshRetryRef,
             authToken, storedToken, storedUser, probers, inflight, timers,
             listCalls>>
envVars == <<svc, db, nextId, sessions, storageOk>>
vars == <<appVars, mountPc, envVars, clicks>>

\* The client state as one value, so that a handler is a function of it and
\* handlers compose the way the calls in the source do.
Cur ==
    [rows |-> rows, term |-> term, type |-> type, sortBy |-> sortBy,
     activeCat |-> activeCat, editing |-> editing, viewing |-> viewing,
     token |-> token, user |-> user, authError |-> authError,
     authBusy |-> authBusy, apiStatus |-> apiStatus, form |-> form,
     apiCheckInFlight |-> apiCheckInFlight, refreshRetryRef |-> refreshRetryRef,
     authToken |-> authToken, storedToken |-> storedToken, storedUser |-> storedUser,
     probers |-> probers, inflight |-> inflight, timers |-> timers,
     listCalls |-> listCalls]

Store(s) ==
    /\ rows' = s.rows /\ term' = s.term /\ type' = s.type /\ sortBy' = s.sortBy
    /\ activeCat' = s.activeCat /\ editing' = s.editing /\ viewing' = s.viewing
    /\ token' = s.token /\ user' = s.user /\ authError' = s.authError
    /\ authBusy' = s.authBusy /\ apiStatus' = s.apiStatus /\ form' = s.form
    /\ apiCheckInFlight' = s.apiCheckInFlight /\ refreshRetryRef' = s.refreshRetryRef
    /\ authToken' = s.authToken /\ storedToken' = s.storedToken
    /\ storedUser' = s.storedUser
    /\ probers' = s.probers /\ inflight' = s.inflight /\ timers' = s.timers
    /\ listCalls' = s.listCalls

\* Store after a handler the user started
StoreActed(s) == Store([s EXCEPT !.listCalls = 0])

(***************************************************************************)
(* The backing service.                                                    *)
(***************************************************************************)
TokenIndex(tok) == CHOOSE n \in 1..Len(TokenNames) : TokenNames[n] = tok

\* the account a bearer token belongs to
SessionUser(ss, tok) ==
    IF tok # NoToken /\ TokenIndex(tok) <= Len(ss) THEN ss[TokenIndex(tok)] ELSE null

SortById(S) ==
    CHOOSE q \in [1..Cardinality(S) -> S] :
        \A i, j \in 1..Cardinality(S) : i < j => q[i].id < q[j].id

\* GET /api/reviews: the reviews of the token's account
ServerList(d, ss, tok) == SortById({r \in d : r.owner = SessionUser(ss, tok)})

\* What a request can come back with, besides success.  A sleeping service
\* answers 503 at the gateway; the network can fail at any time.
Failures(state) ==
    {FailedToFetch} \cup
    (IF state = "cold" THEN {HttpError(503, b) : b \in Bodies}
     ELSE {HttpError(st, b) : st \in {401, 500}, b \in Bodies})

(***************************************************************************)
(* api.js                                                                  *)
(***************************************************************************)
\* A setAuthToken that writes to storage before it sets the module token, and
\* lets the exception of the write escape
setAuthTokenStorageFirst(s, t) ==
    IF storageOk THEN [s EXCEPT !.authToken = t, !.storedToken = t] ELSE s

\* setAuthToken(token): authToken = token || ""; then setItem / removeItem in
\* a try whose catch is empty
setAuthToken(s, t) ==
    [s EXCEPT !.authToken = t,
              !.storedToken = IF storageOk THEN t ELSE @]

\* A request in flight.  sent is the module token that http() read when the
\* request left; tok is the token captured by the refresh closure that the
\* awaiting function is, or will call; review is the payload of a save or a
\* delete; data is, for a list, the answer the service prepares.
\* The timestamps a save puts into its payload; 0 stands for a field the
\* payload does not have.
NoStamps == [updated |-> 0, created |-> 0]

Request(kind, tok, sent, who, review, data) ==
    [kind |-> kind, tok |-> tok, sent |-> sent, who |-> who,
     review |-> review, data |-> data, stamps |-> NoStamps]

\* An http() that sends the token captured by the calling closure
httpWithClosureToken(s, op) ==
    [s EXCEPT !.inflight = Append(@, [op EXCEPT !.sent = op.tok]),
              !.listCalls = IF op.kind = "list" /\ clicks = 0 /\ @ < MaxListCalls
                                   THEN @ + 1 ELSE @]

\* http(path, opts) up to "await fetch(...)": const token = authToken; the
\* header is built from the module token as it is at this moment
http(s, op) ==
    [s EXCEPT !.inflight = Append(@, [op EXCEPT !.sent = s.authToken]),
              !.listCalls = IF op.kind = "list" /\ clicks = 0 /\ @ < MaxListCalls
                                   THEN @ + 1 ELSE @]

(***************************************************************************)
(* App: the helpers every handler calls.                                   *)
(***************************************************************************)
\* storeUser(user)
storeUser(s, u) == [s EXCEPT !.storedUser = IF storageOk THEN u ELSE @]

\* A login response as applyAuth reads it; applyAuth(null) is NoResult.
NoResult == [token |-> NoToken, user |-> null]

\* An applyAuth that leaves the availability status alone on success
applyAuthKeepsStatus(s, result) ==
    IF result.token # NoToken /\ result.user # null
    THEN [storeUser(setAuthToken(s, result.token), result.user)
            EXCEPT !.token = result.token, !.user = result.user]
    ELSE [storeUser(setAuthToken(s, NoToken), null)
            EXCEPT !.token = NoToken, !.user = null, !.rows = <<>>,
                   !.editing = NoReview, !.term = "", !.type = "",
                   !.sortBy = "updated", !.activeCat = "", !.viewing = NoReview,
                   !.apiStatus = "idle"]

\* applyAuth(result)
applyAuth(s, result) ==
    IF result.token # NoToken /\ result.user # null
    THEN [storeUser(setAuthToken(s, result.token), result.user)
            EXCEPT !.token = result.token, !.user = result.user,
                   !.apiStatus = "ready"]
    ELSE [storeUser(setAuthToken(s, NoToken), null)
            EXCEPT !.token = NoToken, !.user = null, !.rows = <<>>,
                   !.editing = NoReview, !.term = "", !.type = "",
                   !.sortBy = "updated", !.activeCat = "", !.viewing = NoReview,
                   !.apiStatus = "idle"]

\* A running waitForApi(): where it is suspended, its loop variable, and who
\* awaits its outcome: the closure token of a refresh, or NoWaiter when the
\* caller ignores the outcome.
NoWaiter == "none"

\* checkApiReady(): fetch(`${BASE}/health`, { cache: "no-store" }) does not go
\* through http(); sent is the Authorization the request leaves with
HealthRequest == [path |-> "/health", sent |-> NoToken]

Sequence(waiter) ==
    [pc |-> "probe", attempt |-> 0, waiter |-> waiter, probe |-> HealthRequest]

\* A waitForApi() without the in-flight guard
waitForApiUnguarded(s, waiter) ==
    [s EXCEPT !.apiCheckInFlight = TRUE,
              !.apiStatus = "booting",
              !.probers = Append(@, Sequence(waiter))]

\* waitForApi() up to its first await: the guard, the flag, booting, and the
\* first checkApiReady().  With the flag set it returns false at once.
waitForApi(s, waiter) ==
    IF s.apiCheckInFlight THEN s
    ELSE [s EXCEPT !.apiCheckInFlight = TRUE,
                   !.apiStatus = "booting",
                   !.probers = Append(@, Sequence(waiter))]

\* A refresh() without the test of the token
refreshUnguarded(s, tok, d, ss) ==
    http(s, Request("list", tok, s.authToken, "", NoReview,
                    ServerList(d, ss, s.authToken)))

\* refresh() up to its first await, as created by the render whose token was tok
refresh(s, tok, d, ss) ==
    IF tok = NoToken
    THEN [s EXCEPT !.rows = <<>>, !.viewing = NoReview, !.apiStatus = "idle"]
    ELSE http(s, Request("list", tok, s.authToken, "", NoReview,
                         ServerList(d, ss, s.authToken)))

\* A synchronisation that leaves a detail view whose review is gone open
SyncViewingKeepsMissing(s) ==
    IF s.viewing = NoReview THEN s
    ELSE IF \E i \in 1..Len(s.rows) : s.rows[i].id = s.viewing.id
         THEN [s EXCEPT !.viewing =
                  s.rows[CHOOSE i \in 1..Len(s.rows) : s.rows[i].id = s.viewing.id]]
         ELSE s

\* useEffect(..., [rows, viewing]): the detail view follows the Collection
SyncViewing(s) ==
    IF s.viewing = NoReview THEN s
    ELSE IF \E i \in 1..Len(s.rows) : s.rows[i].id = s.viewing.id
         THEN [s EXCEPT !.viewing =
                  s.rows[CHOOSE i \in 1..Len(s.rows) : s.rows[i].id = s.viewing.id]]
         ELSE [s EXCEPT !.viewing = NoReview]

\* The render after a handler: useEffect(() => { refresh(); }, [refresh]) runs
\* when the token of the new render differs, then the detail view is synchronised.
\* The Editor exists while editing is not null; its form is initialised when it
\* mounts and kept while it stays mounted.
Commit(old, new, d, ss) ==
    LET fetched == IF new.token # old.token THEN refresh(new, new.token, d, ss) ELSE new
        synced == SyncViewing(fetched)
    IN  [synced EXCEPT !.form =
            IF synced.editing = NoReview THEN NoReview
            ELSE IF old.editing = NoReview THEN synced.editing
            ELSE @]

\* setTimeout(...) returns a handle that no pending timer has
FreeHandle(s) == CHOOSE h \in 1..(Cardinality(s.timers) + 1) :
                    \A t \in s.timers : t.h # h

\* A retry scheduling that forgets to clear the pending timer
ScheduleRetryNoCancel(s, tok) ==
    LET h == FreeHandle(s)
    IN  [s EXCEPT !.timers = @ \cup {[h |-> h, tok |-> tok]},
                  !.refreshRetryRef = h]

\* if (refreshRetryRef.current) clearTimeout(refreshRetryRef.current);
\* refreshRetryRef.current = setTimeout(() => { ...; refresh(); }, 300)
ScheduleRetry(s, tok) ==
    LET cleared == [s EXCEPT !.timers = {t \in @ : t.h # s.refreshRetryRef}]
        h == FreeHandle(cleared)
    IN  [cleared EXCEPT !.timers = @ \cup {[h |-> h, tok |-> tok]},
                        !.refreshRetryRef = h]

\* refresh() resumed after "await waitForApi()": if (warmed && token) { ... }
RefreshWarmed(s, tok, warmed) ==
    IF warmed /\ tok # NoToken THEN ScheduleRetry(s, tok) ELSE s

\* The function awaiting a finished waitForApi() resumes with its outcome.
Resume(s, waiter, warmed) ==
    IF waiter = NoWaiter THEN s ELSE RefreshWarmed(s, waiter, warmed)

\* Element i leaves a sequence.
Without(q, i) == SubSeq(q, 1, i - 1) \o SubSeq(q, i + 1, Len(q))

\* The request at position i has been answered.
Take(s, i) == [s EXCEPT !.inflight = Without(@, i)]

CanSend == Len(inflight) < MaxInFlight

\* one more action of the user
UserActs == clicks < MaxClicks /\ clicks' = clicks + 1

(***************************************************************************)
(* Initial states: App has rendered once and its mount effects have run    *)
(* (checkApiReady() is out; with a token, so is the first list request).   *)
(* localStorage holds either nothing or the session of an earlier visit.   *)
(***************************************************************************)
InitialDb == {[id |-> 1, owner |-> "ann", category |-> "brunch"]}

InitWith(storage, services) ==
    /\ storageOk \in storage
    /\ svc \in services
    /\ db = InitialDb
    /\ nextId = 2
    /\ clicks = 0
    /\ \E stored \in {NoToken, TokenNames[1]} :
          /\ sessions = IF stored = NoToken THEN <<>> ELSE <<"ann">>
          /\ storedToken = IF storageOk THEN stored ELSE NoToken
          /\ storedUser = IF storageOk /\ stored # NoToken THEN "ann" ELSE null
          /\ authToken = storedToken
          /\ token = storedToken
          /\ user = storedUser
          /\ inflight = IF storedToken = NoToken THEN <<>>
                        ELSE <<Request("list", stored, stored, "", NoReview,
                                       ServerList(InitialDb, <<"ann">>, stored))>>
    /\ rows = <<>> /\ term = "" /\ type = "" /\ sortBy = "updated" /\ activeCat = ""
    /\ editing = NoReview /\ viewing = NoReview /\ form = NoReview
    /\ authError = <<>> /\ authBusy = FALSE
    /\ apiStatus = "idle"
    /\ apiCheckInFlight = FALSE /\ refreshRetryRef = 0
    /\ mountPc = "probe"
    /\ probers = <<>>
    /\ timers = {}
    /\ listCalls = Len(inflight)

Init == InitWith({TRUE}, {"cold", "up"})

(***************************************************************************)
(* refresh: the answer to GET /api/reviews                                 *)
(***************************************************************************)
\* A try-branch of refresh that merges the answer into the Collection
RefreshLoadedMerging(s, data, isArray) ==
    [s EXCEPT !.rows = IF isArray THEN @ \o data ELSE @, !.apiStatus = "ready"]

\* A try-branch of refresh that gives up the other list requests in flight
RefreshLoadedLatestOnly(s, data, isArray) ==
    LET Other(op) == op.kind # "list" IN
    [s EXCEPT !.rows = IF isArray THEN data ELSE <<>>, !.apiStatus = "ready",
              !.inflight = SelectSeq(@, Other)]

\* try-branch of refresh: setRows(Array.isArray(data) ? data : [])
RefreshLoaded(s, data, isArray) ==
    [s EXCEPT !.rows = IF isArray THEN data ELSE <<>>, !.apiStatus = "ready"]

\* A catch-branch of refresh that does not look for "401" in the message
RefreshFailedNo401(s, tok, err) ==
    IF isLikelyBootingError(err)
    THEN IF s.apiCheckInFlight
         THEN RefreshWarmed(waitForApi(s, tok), tok, FALSE)
         ELSE waitForApi(s, tok)
    ELSE [s EXCEPT !.apiStatus = "error"]

\* catch-branch of refresh, for the refresh whose closure token is tok.  When
\* waitForApi() returns at once (a sequence is in flight) warmed is false.
RefreshFailed(s, tok, err) ==
    IF Mentions401(err) THEN applyAuth(s, NoResult)
    ELSE IF isLikelyBootingError(err)
         THEN IF s.apiCheckInFlight
              THEN RefreshWarmed(waitForApi(s, tok), tok, FALSE)
              ELSE waitForApi(s, tok)
         ELSE [s EXCEPT !.apiStatus = "error"]

ListOkAt(i, isArray) ==
    /\ inflight[i].kind = "list"
    /\ svc = "up"
    /\ inflight[i].sent # NoToken
    /\ Store(Commit(Cur, RefreshLoaded(Take(Cur, i), inflight[i].data, isArray),
                    db, sessions))
    /\ UNCHANGED <<mountPc, envVars, clicks>>

ListOk == \E i \in 1..Len(inflight), isArray \in BOOLEAN : ListOkAt(i, isArray)

ListFailAt(i, err) ==
    /\ inflight[i].kind = "list"
    /\ Store(Commit(Cur, RefreshFailed(Take(Cur, i), inflight[i].tok, err),
                    db, sessions))
    /\ UNCHANGED <<mountPc, envVars, clicks>>

ListFail == \E i \in 1..Len(inflight), err \in Failures(svc) : ListFailAt(i, err)

(***************************************************************************)
(* handleAuthSubmit and handleLogout                                       *)
(***************************************************************************)
Trim(t) ==
    LET keep == {i \in 1..Len(t) : t[i] # " "} IN
    IF keep = {} THEN <<>>
    ELSE SubSeq(t, CHOOSE i \in keep : \A j \in keep : i <= j,
                   CHOOSE i \in keep : \A j \in keep : i >= j)

\* JSON.parse(message.slice(jsonStart)).detail, for the bodies of this model
ParsedDetail(message) ==
    IF includes(message, BodyDetail) THEN <<"b","a","d">> ELSE <<>>

\* message.replace(/^HTTP\s+\d+\s+[A-Za-z ]+\s+-\s*/i, "").trim()
StripHttpPrefix(message) ==
    LET sep == {i \in 1..(Len(message) - 2) : SubSeq(message, i, i + 2) = <<" ","-"," ">>} IN
    IF Len(message) >= 5 /\ SubSeq(message, 1, 5) = <<"H","T","T","P"," ">> /\ sep # {}
    THEN Trim(SubSeq(message, (CHOOSE i \in sep : \A j \in sep : i <= j) + 3, Len(message)))
    ELSE Trim(message)

\* A catch-branch of handleAuthSubmit that shows the cleaned message as it is
AuthFailedNoFallback(s, err) ==
    LET detail == ParsedDetail(err.message)
        cleaned == IF detail # <<>> THEN detail ELSE StripHttpPrefix(err.message)
        shown == IF isLikelyBootingError(err)
                 THEN waitForApi([s EXCEPT !.authError = MsgWarming], NoWaiter)
                 ELSE [s EXCEPT !.authError = cleaned]
    IN  [shown EXCEPT !.authBusy = FALSE]

\* catch-branch of handleAuthSubmit, and its finally
AuthFailed(s, err) ==
    LET detail == ParsedDetail(err.message)
        cleaned == IF detail # <<>> THEN detail ELSE StripHttpPrefix(err.message)
        shown == IF isLikelyBootingError(err)
                 THEN waitForApi([s EXCEPT !.authError = MsgWarming], NoWaiter)
                 ELSE [s EXCEPT !.authError = IF cleaned # <<>> THEN cleaned ELSE MsgUnable]
    IN  [shown EXCEPT !.authBusy = FALSE]

\* try-branch of handleAuthSubmit, and its finally
AuthSucceeded(s, response) == [applyAuth(s, response) EXCEPT !.authBusy = FALSE]

\* handleAuthSubmit with an empty email or password
AuthSubmitInvalid ==
    /\ UserActs
    /\ token = NoToken
    /\ ~authBusy
    /\ StoreActed(Commit(Cur, [Cur EXCEPT !.authError = MsgRequired], db, sessions))
    /\ UNCHANGED <<mountPc, envVars>>

\* handleAuthSubmit up to "await action(payload)"
AuthSubmit ==
    /\ UserActs
    /\ token = NoToken
    /\ ~authBusy
    /\ CanSend
    /\ \E mode \in {"login", "register"}, who \in Users :
          StoreActed(Commit(Cur,
                http([Cur EXCEPT !.authError = <<>>, !.authBusy = TRUE],
                     Request(mode, NoToken, authToken, who, NoReview, <<>>)),
                db, sessions))
    /\ UNCHANGED <<mountPc, envVars>>

\* What POST /api/login or /api/register answers on success: a new session's
\* token and the account, or a body that lacks the user.
AuthResponses(who) ==
    {[token |-> TokenNames[Len(sessions) + 1], user |-> who],
     [token |-> TokenNames[Len(sessions) + 1], user |-> null]}

AuthOkAt(i, response) ==
    /\ inflight[i].kind \in {"login", "register"}
    /\ svc = "up"
    /\ Len(sessions) < MaxLogins
    /\ sessions' = Append(sessions, inflight[i].who)
    /\ Store(Commit(Cur, AuthSucceeded(Take(Cur, i), response), db, sessions'))
    /\ UNCHANGED <<mountPc, svc, db, nextId, storageOk, clicks>>

AuthOk ==
    \E i \in 1..Len(inflight) :
        \E response \in AuthResponses(inflight[i].who) : AuthOkAt(i, response)

AuthFailAt(i, err) ==
    /\ inflight[i].kind \in {"login", "register"}
    /\ Store(Commit(Cur, AuthFailed(Take(Cur, i), err), db, sessions))
    /\ UNCHANGED <<mountPc, envVars, clicks>>

AuthFail == \E i \in 1..Len(inflight), err \in Failures(svc) : AuthFailAt(i, err)

\* handleLogout up to "await logoutUser()"
LogoutClick ==
    /\ UserActs
    /\ token # NoToken
    /\ CanSend
    /\ StoreActed(Commit(Cur, http(Cur, Request("logout", token, authToken, "", NoReview, <<>>)),
                    db, sessions))
    /\ UNCHANGED <<mountPc, envVars>>

\* A handleLogout whose teardown sits in the try block instead of the finally
LogoutSettledInTry(s, ok) == IF ok THEN applyAuth(s, NoResult) ELSE s

\* handleLogout after the await: the catch only logs, the finally tears down
LogoutSettled(s, ok) == applyAuth(s, NoResult)

LogoutDoneAt(i, ok) ==
    /\ inflight[i].kind = "logout"
    /\ ok => svc = "up"
    /\ Store(Commit(Cur, LogoutSettled(Take(Cur, i), ok), db, sessions))
    /\ UNCHANGED <<mountPc, envVars, clicks>>

LogoutDone == \E i \in 1..Len(inflight), ok \in BOOLEAN : LogoutDoneAt(i, ok)

(***************************************************************************)
(* handleDelete                                                            *)
(***************************************************************************)
\* The reviews on screen: the cards of the list
Shown(s) == {s.rows[i] : i \in 1..Len(s.rows)}

\* A try-branch of handleDelete that forgets the refresh()
DeleteSucceededNoRefresh(s, review, tok, d, ss) ==
    [s EXCEPT !.viewing = IF @.id = review.id THEN NoReview ELSE @]

\* try-branch of handleDelete after "await deleteReview(review.id)"
DeleteSucceeded(s, review, tok, d, ss) ==
    refresh([s EXCEPT !.viewing = IF @.id = review.id THEN NoReview ELSE @],
            tok, d, ss)

\* catch-branch of handleDelete
DeleteFailed(s, err) ==
    IF Mentions401(err) THEN applyAuth(s, NoResult)
    ELSE IF isLikelyBootingError(err) THEN waitForApi(s, NoWaiter)
    ELSE s

\* A handleDelete that does not ask before it deletes
handleDeleteUnasked(s, review, confirmed) ==
    IF review.id <= 0 THEN s
    ELSE http(s, Request("delete", s.token, s.authToken, "", review, <<>>))

\* handleDelete(review) up to "await deleteReview(review.id)": the two early
\* returns, on a review without id and on a declined confirm()
handleDelete(s, review, confirmed) ==
    IF review.id <= 0 \/ ~confirmed THEN s
    ELSE http(s, Request("delete", s.token, s.authToken, "", review, <<>>))

\* The Delete buttons: those of the cards and that of the detail view
Deletable(s) == Shown(s) \cup ({s.viewing} \ {NoReview})

DeleteClickAt(review, confirmed) ==
    /\ UserActs
    /\ token # NoToken
    /\ CanSend
    /\ StoreActed(Commit(Cur, handleDelete(Cur, review, confirmed), db, sessions))
    /\ UNCHANGED <<mountPc, envVars>>

DeleteClick ==
    \E review \in Deletable(Cur), confirmed \in BOOLEAN : DeleteClickAt(review, confirmed)

\* DELETE /api/reviews/{id} answered with a success: the review is gone
DeleteOkAt(i) ==
    /\ inflight[i].kind = "delete"
    /\ svc = "up"
    /\ \E r \in db : r.id = inflight[i].review.id
                     /\ r.owner = SessionUser(sessions, inflight[i].sent)
    /\ db' = {r \in db : r.id # inflight[i].review.id}
    /\ Store(Commit(Cur,
             DeleteSucceeded(Take(Cur, i), inflight[i].review, inflight[i].tok,
                             db', sessions),
             db', sessions))
    /\ UNCHANGED <<mountPc, svc, nextId, sessions, storageOk, clicks>>

DeleteOk == \E i \in 1..Len(inflight) : DeleteOkAt(i)

DeleteFailAt(i, err) ==
    /\ inflight[i].kind = "delete"
    /\ Store(Commit(Cur, DeleteFailed(Take(Cur, i), err), db, sessions))
    /\ UNCHANGED <<mountPc, envVars, clicks>>

DeleteFail == \E i \in 1..Len(inflight), err \in Failures(svc) : DeleteFailAt(i, err)

(***************************************************************************)
(* The editor                                                              *)
(***************************************************************************)
\* onSaved of the Editor: setEditing(null); refresh()
onSaved(s, tok, d, ss) == refresh([s EXCEPT !.editing = NoReview], tok, d, ss)

\* catch-branch of submit: onAuthError is () => applyAuth(null)
SubmitFailed(s, err) ==
    IF Mentions401(err) THEN applyAuth(s, NoResult) ELSE s

\* The Add button, and the Edit button of a card: setEditing({}) / setEditing(r)
EditClickAt(review) ==
    /\ UserActs
    /\ token # NoToken
    /\ StoreActed(Commit(Cur, [Cur EXCEPT !.editing = review], db, sessions))
    /\ UNCHANGED <<mountPc, envVars>>

EditClick == \E review \in Shown(Cur) \cup {Template} : EditClickAt(review)

\* The Edit button of the detail view: setEditing(viewing); setViewing(null)
ViewEditClick ==
    /\ UserActs
    /\ token # NoToken
    /\ viewing # NoReview
    /\ StoreActed(Commit(Cur, [Cur EXCEPT !.editing = viewing, !.viewing = NoReview],
                    db, sessions))
    /\ UNCHANGED <<mountPc, envVars>>

\* onClose of the Editor (the close button and Cancel)
EditorClose ==
    /\ UserActs
    /\ editing # NoReview
    /\ StoreActed(Commit(Cur, [Cur EXCEPT !.editing = NoReview], db, sessions))
    /\ UNCHANGED <<mountPc, envVars>>

\* setField("category") of the Editor
EditorSetField ==
    /\ UserActs
    /\ editing # NoReview
    /\ \E c \in Categories \cup {""} :
          /\ c # form.category
          /\ StoreActed(Commit(Cur, [Cur EXCEPT !.form.category = c], db, sessions))
    /\ UNCHANGED <<mountPc, envVars>>

\* nowISO(): the clock as the user's actions read it, the n-th action at time n
nowISO == clicks + 1

\* A submit that creates whatever the draft is
submitAlwaysCreates(s, now) ==
    http(s, [Request("create", s.token, s.authToken, "", s.form, <<>>)
                EXCEPT !.stamps = [updated |-> now, created |-> now]])

\* submit of the Editor up to the await: payload = { ...form, updated: nowISO() };
\* updateReview when the draft has an id, else payload.created = nowISO() and
\* createReview
submit(s, now) ==
    IF s.form.id > 0
    THEN http(s, [Request("update", s.token, s.authToken, "", s.form, <<>>)
                     EXCEPT !.stamps = [updated |-> now, created |-> 0]])
    ELSE http(s, [Request("create", s.token, s.authToken, "", s.form, <<>>)
                     EXCEPT !.stamps = [updated |-> now, created |-> now]])

\* The Save button of the Editor
EditorSubmit ==
    /\ UserActs
    /\ editing # NoReview
    /\ CanSend
    /\ StoreActed(Commit(Cur, submit(Cur, nowISO), db, sessions))
    /\ UNCHANGED <<mountPc, envVars>>

\* POST /api/reviews or PUT /api/reviews/{id} answered with a success
SaveOkAt(i) ==
    LET op == inflight[i]
        owner == SessionUser(sessions, op.sent) IN
    /\ op.kind \in {"create", "update"}
    /\ svc = "up"
    /\ owner # null
    /\ IF op.kind = "create"
       THEN /\ nextId <= MaxReviews
            /\ db' = db \cup {[id |-> nextId, owner |-> owner,
                               category |-> op.review.category]}
            /\ nextId' = nextId + 1
       ELSE /\ \E r \in db : r.id = op.review.id /\ r.owner = owner
            /\ db' = {r \in db : r.id # op.review.id}
                     \cup {[id |-> op.review.id, owner |-> owner,
                            category |-> op.review.category]}
            /\ nextId' = nextId
    /\ Store(Commit(Cur, onSaved(Take(Cur, i), op.tok, db', sessions), db', sessions))
    /\ UNCHANGED <<mountPc, svc, sessions, storageOk, clicks>>

SaveOk == \E i \in 1..Len(inflight) : SaveOkAt(i)

SaveFailAt(i, err) ==
    /\ inflight[i].kind \in {"create", "update"}
    /\ Store(Commit(Cur, SubmitFailed(Take(Cur, i), err), db, sessions))
    /\ UNCHANGED <<mountPc, envVars, clicks>>

SaveFail == \E i \in 1..Len(inflight), err \in Failures(svc) : SaveFailAt(i, err)

(***************************************************************************)
(* The detail view and the View Criteria                                   *)
(***************************************************************************)
\* The View button of a card: setViewing(r)
ViewClick ==
    /\ UserActs
    /\ token # NoToken
    /\ \E review \in Shown(Cur) :
          StoreActed(Commit(Cur, [Cur EXCEPT !.viewing = review], db, sessions))
    /\ UNCHANGED <<mountPc, envVars>>

\* onClose of ReviewDetail
ViewClose ==
    /\ UserActs
    /\ viewing # NoReview
    /\ StoreActed(Commit(Cur, [Cur EXCEPT !.viewing = NoReview], db, sessions))
    /\ UNCHANGED <<mountPc, envVars>>

\* The category buttons, one for each of the derived categories.  A category
\* is one word in this specification, so that the derived categories are the
\* categories of the rows; the derivation itself is categories, below.
CategoryButtons(s) == {r.category : r \in Shown(s)} \ {""}

\* The search box, the type and sort selects, the category buttons
SetCriteria ==
    /\ UserActs
    /\ token # NoToken
    /\ \E next \in
          {[Cur EXCEPT !.term = t] : t \in Terms} \cup
          {[Cur EXCEPT !.type = t] : t \in TypeChoices} \cup
          {[Cur EXCEPT !.sortBy = k] : k \in SortKeys} \cup
          {[Cur EXCEPT !.activeCat = IF @ = c THEN "" ELSE c] : c \in CategoryButtons(Cur)} \cup
          {[Cur EXCEPT !.activeCat = ""]} :
          /\ next # Cur
          /\ StoreActed(Commit(Cur, next, db, sessions))
    /\ UNCHANGED <<mountPc, envVars>>

\* The Clear button of the filter bar
ClearFilters ==
    /\ UserActs
    /\ token # NoToken
    /\ StoreActed(Commit(Cur, [Cur EXCEPT !.term = "", !.type = "", !.sortBy = "updated",
                                     !.activeCat = ""], db, sessions))
    /\ UNCHANGED <<mountPc, envVars>>

(***************************************************************************)
(* The availability prober                                                 *)
(***************************************************************************)
\* What fetch() of GET /health settles with: an answer with a status, or a
\* rejection.  A sleeping service answers 503 at the gateway.
Answered(status) == [rejected |-> FALSE, status |-> status]
Rejected == [rejected |-> TRUE, status |-> 0]
HealthOutcomes ==
    {Rejected} \cup (IF svc = "up" THEN {Answered(200), Answered(500)}
                     ELSE {Answered(503)})

\* res.ok
ResOk(status) == status \in 200..299

\* A checkApiReady() that takes any answer for a success
checkApiReadyAnyAnswer(outcome) == ~outcome.rejected

\* checkApiReady(): return res.ok, and false from the catch
checkApiReady(outcome) ==
    IF outcome.rejected THEN FALSE ELSE ResOk(outcome.status)

HealthAnswers == {checkApiReady(outcome) : outcome \in HealthOutcomes}

\* The mount effect after "await checkApiReady()"
MountProbed(s, ready) ==
    IF ready THEN [s EXCEPT !.apiStatus = "ready"] ELSE waitForApi(s, NoWaiter)

MountProbeAt(ready) ==
    /\ mountPc = "probe"
    /\ mountPc' = "done"
    /\ Store(Commit(Cur, MountProbed(Cur, ready), db, sessions))
    /\ UNCHANGED <<envVars, clicks>>

MountProbeDone == \E ready \in HealthAnswers : MountProbeAt(ready)

\* A waitForApi that releases the flag only where it returns true
FinishedGuardKeptOnFailure(s, k, status) ==
    [s EXCEPT !.apiStatus = status,
              !.apiCheckInFlight = IF status = "ready" THEN FALSE ELSE @,
              !.probers = Without(@, k)]

\* waitForApi leaves through its finally: the flag is released
Finished(s, k, status) ==
    [s EXCEPT !.apiStatus = status, !.apiCheckInFlight = FALSE,
              !.probers = Without(@, k)]

\* waitForApi after "await checkApiReady()" of sequence k
Probed(s, k, ready) ==
    IF ready THEN Resume(Finished(s, k, "ready"), s.probers[k].waiter, TRUE)
    ELSE [s EXCEPT !.probers[k].pc = "sleep"]

\* A loop that runs while attempt <= attempts
SleptOnceMore(s, k) ==
    IF s.probers[k].attempt + 1 <= attempts
    THEN [s EXCEPT !.probers[k].pc = "probe", !.probers[k].attempt = @ + 1]
    ELSE Resume(Finished(s, k, "error"), s.probers[k].waiter, FALSE)

\* waitForApi after the delay that follows a failed probe: the next attempt,
\* or the end of the loop
Slept(s, k) ==
    IF s.probers[k].attempt + 1 < attempts
    THEN [s EXCEPT !.probers[k].pc = "probe", !.probers[k].attempt = @ + 1]
    ELSE Resume(Finished(s, k, "error"), s.probers[k].waiter, FALSE)

ProbeAt(k, ready) ==
    /\ probers[k].pc = "probe"
    /\ Store(Commit(Cur, Probed(Cur, k, ready), db, sessions))
    /\ UNCHANGED <<mountPc, envVars, clicks>>

ProbeDone == \E k \in 1..Len(probers), ready \in HealthAnswers : ProbeAt(k, ready)

SleepDoneAt(k) ==
    /\ probers[k].pc = "sleep"
    /\ Store(Commit(Cur, Slept(Cur, k), db, sessions))
    /\ UNCHANGED <<mountPc, envVars, clicks>>

SleepDone == \E k \in 1..Len(probers) : SleepDoneAt(k)

\* The callback of the retry timer: refreshRetryRef.current = null; refresh()
RetryFired(s, t, d, ss) ==
    refresh([s EXCEPT !.timers = @ \ {t}, !.refreshRetryRef = 0], t.tok, d, ss)

RetryFireAt(t) ==
    /\ CanSend
    /\ Store(Commit(Cur, RetryFired(Cur, t, db, sessions), db, sessions))
    /\ UNCHANGED <<mountPc, envVars, clicks>>

RetryFire == \E t \in timers : RetryFireAt(t)

\* The sleeping service finishes waking up.
ServiceWake ==
    /\ svc = "cold"
    /\ svc' = "up"
    /\ UNCHANGED <<appVars, mountPc, db, nextId, sessions, storageOk, clicks>>

Next ==
    \/ MountProbeDone
    \/ ProbeDone
    \/ SleepDone
    \/ RetryFire
    \/ ServiceWake
    \/ ListOk
    \/ ListFail
    \/ AuthSubmitInvalid
    \/ AuthSubmit
    \/ AuthOk
    \/ AuthFail
    \/ LogoutClick
    \/ LogoutDone
    \/ DeleteClick
    \/ DeleteOk
    \/ DeleteFail
    \/ EditClick
    \/ ViewEditClick
    \/ EditorClose
    \/ EditorSetField
    \/ EditorSubmit
    \/ SaveOk
    \/ SaveFail
    \/ ViewClick
    \/ ViewClose
    \/ SetCriteria
    \/ ClearFilters

Spec == Init /\ [][Next]_vars

\* Every await of a running waitForApi() settles: a probe is answered (fetch
\* resolves or rejects), a delay elapses.
FairSpec == Spec /\ WF_vars(ProbeDone) /\ WF_vars(SleepDone)

(***************************************************************************)
(* A returning user opens the page while the service is asleep and then    *)
(* only watches.  The environment is truthful: while the service sleeps    *)
(* the gateway answers 503 and probes fail; once it is up, probes and list *)
(* requests succeed.  Every request is answered, every timer fires, and    *)
(* the service does wake up.                                               *)
(***************************************************************************)
ColdInit == InitWith({TRUE}, {"cold"}) /\ token # NoToken

MountProbeTruthful == \E ready \in {svc = "up"} : MountProbeAt(ready)

ProbeTruthful == \E k \in 1..Len(probers) : ProbeAt(k, svc = "up")

ListArrives == \E i \in 1..Len(inflight) : ListOkAt(i, TRUE)

List503 ==
    /\ svc = "cold"
    /\ \E i \in 1..Len(inflight), b \in Bodies : ListFailAt(i, HttpError(503, b))

ColdNext ==
    \/ ServiceWake
    \/ MountProbeTruthful
    \/ ProbeTruthful
    \/ SleepDone
    \/ RetryFire
    \/ ListArrives
    \/ List503

ColdSpec ==
    /\ ColdInit /\ [][ColdNext]_vars
    /\ WF_vars(ServiceWake) /\ WF_vars(MountProbeTruthful) /\ WF_vars(ProbeTruthful)
    /\ WF_vars(SleepDone) /\ WF_vars(RetryFire) /\ WF_vars(ListArrives)

(***************************************************************************)
(* A signed-in user, whose list has been loaded, has opened the editor, on *)
(* their review or on a new one; from here they act at most MaxClicks      *)
(* times.  The service is up and every request that can succeed is         *)
(* answered with a success.                                                *)
(***************************************************************************)
CalmInit ==
    /\ storageOk = TRUE /\ svc = "up" /\ db = InitialDb /\ nextId = 2
    /\ sessions = <<"ann">>
    /\ token = TokenNames[1] /\ authToken = token /\ storedToken = token
    /\ user = "ann" /\ storedUser = user
    /\ rows = ServerList(InitialDb, <<"ann">>, TokenNames[1])
    /\ term = "" /\ type = "" /\ sortBy = "updated" /\ activeCat = ""
    /\ editing \in {rows[1], Template} /\ form = editing /\ viewing = NoReview
    /\ authError = <<>> /\ authBusy = FALSE /\ apiStatus = "ready"
    /\ apiCheckInFlight = FALSE /\ refreshRetryRef = 0
    /\ mountPc = "done" /\ probers = <<>> /\ inflight = <<>> /\ timers = {}
    /\ listCalls = 0 /\ clicks = 0

CalmNext ==
    \/ EditorSetField
    \/ EditorSubmit
    \/ EditorClose
    \/ EditClick
    \/ ViewClick
    \/ ViewClose
    \/ SetCriteria
    \/ ClearFilters
    \/ DeleteClick
    \/ SaveOk
    \/ DeleteOk
    \/ ListArrives

CalmSpec ==
    /\ CalmInit /\ [][CalmNext]_vars
    /\ WF_vars(SaveOk) /\ WF_vars(DeleteOk) /\ WF_vars(ListArrives)

(***************************************************************************)
(* The same program in a browser whose localStorage can throw: at the      *)
(* first read (nothing is restored), and at any later setItem or           *)
(* removeItem, which then leaves the stored value as it was.               *)
(***************************************************************************)
StorageInit == InitWith(BOOLEAN, {"cold", "up"})

\* localStorage starts or stops throwing
StorageChanges ==
    /\ storageOk' = ~storageOk
    /\ UNCHANGED <<appVars, mountPc, svc, db, nextId, sessions, clicks>>

StorageNext == Next \/ StorageChanges

StorageSpec == StorageInit /\ [][StorageNext]_vars

(***************************************************************************)
(* The list on screen: filtered, the useMemo over rows and the View        *)
(* Criteria.  Here the texts of a review and of the criteria are sequences *)
(* of characters, so that the search, the split of the categories and the  *)
(* comparisons of the sort are computed.                                   *)
(***************************************************************************)
\* s.split(",")
RECURSIVE split(_)
split(s) ==
    LET commas == {i \in 1..Len(s) : s[i] = ","} IN
    IF commas = {} THEN <<s>>
    ELSE LET i == CHOOSE c \in commas : \A d \in commas : c <= d
         IN  <<SubSeq(s, 1, i - 1)>> \o split(SubSeq(s, i + 1, Len(s)))

\* `${r.title || ""} ${r.notes || ""} ${r.address || ""} ${r.category || ""} ${r.website || ""}`
Blob(r) ==
    r.title \o <<" ">> \o r.notes \o <<" ">> \o r.address \o <<" ">>
            \o r.category \o <<" ">> \o r.website

\* okTerm, with t = term.toLowerCase()
okTerm(r, t) == IF t # <<>> THEN includes(toLowerCase(Blob(r)), t) ELSE TRUE

\* okType
okType(r, wanted) == IF wanted # "" THEN r.type = wanted ELSE TRUE

\* An okCat that does not trim the pieces of the category
okCatUntrimmed(r, cat) ==
    IF cat # <<>>
    THEN LET pieces == split(toLowerCase(r.category)) IN
         \E k \in 1..Len(pieces) : pieces[k] = toLowerCase(cat)
    ELSE TRUE

\* okCat
okCat(r, cat) ==
    IF cat # <<>>
    THEN LET pieces == split(toLowerCase(r.category)) IN
         \E k \in 1..Len(pieces) : Trim(pieces[k]) = toLowerCase(cat)
    ELSE TRUE

\* The order of String.prototype.localeCompare on the characters of this
\* model: punctuation, digits, letters; a letter and its capital differ only
\* when everything else is equal, the small one first.
Collation == <<" ", ",", "-">> \o DigitChars \o LowerCase

CollationKey(c) ==
    CHOOSE k \in 1..Len(Collation) : Collation[k] = toLowerCase(<<c>>)[1]

RECURSIVE ComparePrimary(_, _)
ComparePrimary(a, b) ==
    IF a = <<>> THEN (IF b = <<>> THEN 0 ELSE -1)
    ELSE IF b = <<>> THEN 1
    ELSE IF CollationKey(a[1]) < CollationKey(b[1]) THEN -1
    ELSE IF CollationKey(a[1]) > CollationKey(b[1]) THEN 1
    ELSE ComparePrimary(Tail(a), Tail(b))

\* a.localeCompare(b): negative, zero or positive
localeCompare(a, b) ==
    IF ComparePrimary(a, b) # 0 THEN ComparePrimary(a, b)
    ELSE IF a = b THEN 0
    ELSE LET i == CHOOSE k \in 1..Len(a) :
                      a[k] # b[k] /\ \A j \in 1..(k - 1) : a[j] = b[j]
         IN  IF toLowerCase(<<a[i]>>) = <<a[i]>> THEN -1 ELSE 1

\* r.rating || 0: a missing rating is <<>>, a rating n is <<n>>
OrZero(rating) == IF rating = <<>> THEN 0 ELSE rating[1]

\* A comparator whose rating branch is a - b
compareRatingAscending(a, b, key) ==
    IF key = "rating" THEN OrZero(a.rating) - OrZero(b.rating)
    ELSE IF key = "title" THEN localeCompare(a.title, b.title)
    ELSE IF key = "date" THEN localeCompare(b.date, a.date)
    ELSE localeCompare(b.updated, a.updated)

\* The comparator given to out.sort
compare(a, b, key) ==
    IF key = "rating" THEN OrZero(b.rating) - OrZero(a.rating)
    ELSE IF key = "title" THEN localeCompare(a.title, b.title)
    ELSE IF key = "date" THEN localeCompare(b.date, a.date)
    ELSE localeCompare(b.updated, a.updated)

\* A sort that places an element in front of those it compares equal to
RECURSIVE sortUnstable(_, _)
sortUnstable(q, key) ==
    IF q = <<>> THEN <<>>
    ELSE LET rest == sortUnstable(SubSeq(q, 1, Len(q) - 1), key)
             x == q[Len(q)]
             before == {j \in 1..Len(rest) : compare(rest[j], x, key) < 0}
             p == IF before = {} THEN 0
                  ELSE CHOOSE j \in before : \A k \in before : k <= j
         IN  SubSeq(rest, 1, p) \o <<x>> \o SubSeq(rest, p + 1, Len(rest))

\* Array.prototype.sort with that comparator: stable, each element placed
\* behind the last one that does not come after it
RECURSIVE sort(_, _)
sort(q, key) ==
    IF q = <<>> THEN <<>>
    ELSE LET rest == sort(SubSeq(q, 1, Len(q) - 1), key)
             x == q[Len(q)]
             before == {j \in 1..Len(rest) : compare(rest[j], x, key) <= 0}
             p == IF before = {} THEN 0
                  ELSE CHOOSE j \in before : \A k \in before : k <= j
         IN  SubSeq(rest, 1, p) \o <<x>> \o SubSeq(rest, p + 1, Len(rest))

\* filtered
filtered(s) ==
    LET t == toLowerCase(s.term)
        Keep(r) == okTerm(r, t) /\ okType(r, s.type) /\ okCat(r, s.activeCat)
    IN  sort(SelectSeq(s.rows, Keep), s.sortBy)

\* s.add(c) for each of the tokens, a Set keeping the order of insertion
RECURSIVE addAll(_, _)
addAll(seen, tokens) ==
    IF tokens = <<>> THEN seen
    ELSE addAll(IF \E k \in 1..Len(seen) : seen[k] = Head(tokens)
                THEN seen ELSE Append(seen, Head(tokens)),
                Tail(tokens))

\* (r.category || "").split(",").map(x => x.trim()) without the filter
tokensUnfiltered(r) ==
    LET pieces == split(r.category) IN
    [k \in 1..Len(pieces) |-> Trim(pieces[k])]

\* (r.category || "").split(",").map(x => x.trim()).filter(Boolean)
tokens(r) ==
    LET pieces == split(r.category)
        NonEmpty(x) == x # <<>>
    IN  SelectSeq([k \in 1..Len(pieces) |-> Trim(pieces[k])], NonEmpty)

\* rows.forEach(r => ... s.add(c))
RECURSIVE collect(_, _)
collect(seen, rs) ==
    IF rs = <<>> THEN seen
    ELSE collect(addAll(seen, tokens(Head(rs))), Tail(rs))

\* Array.from(s).sort((a, b) => a.localeCompare(b))
RECURSIVE sortTexts(_)
sortTexts(q) ==
    IF q = <<>> THEN <<>>
    ELSE LET rest == sortTexts(SubSeq(q, 1, Len(q) - 1))
             x == q[Len(q)]
             before == {j \in 1..Len(rest) : localeCompare(rest[j], x) <= 0}
             p == IF before = {} THEN 0
                  ELSE CHOOSE j \in before : \A k \in before : k <= j
         IN  SubSeq(rest, 1, p) \o <<x>> \o SubSeq(rest, p + 1, Len(rest))

\* categories
categories(rs) == sortTexts(collect(<<>>, rs))

\* Reviews as the list shows them
Review(id, title, notes, category, kind, rating, date, updated) ==
    [id |-> id, owner |-> "ann", title |-> title, notes |-> notes,
     address |-> <<>>, website |-> <<>>, category |-> category,
     type |-> kind, rating |-> rating, date |-> date, updated |-> updated]

ViewReviews ==
    { Review(1, <<"C","a","f","e">>, <<>>,
             <<"C","o","f","f","e","e",","," ","B","r","u","n","c","h">>,
             "food", <<5>>, <<"2">>, <<"3">>),
      Review(2, <<"b","a","r">>, <<"o","k">>,
             <<"b","r","u","n","c","h",","," ","D","e","s","s","e","r","t">>,
             "place", <<>>, <<>>, <<>>),
      Review(3, <<"Z","o","o">>, <<>>, <<>>,
             "place", <<3>>, <<"1">>, <<"1">>),
      Review(4, <<"a","p","p","l","e">>, <<>>,
             <<" ","c","a","f","e"," ",",",",","x">>,
             "food", <<5>>, <<"2">>, <<>>) }

\* Collections of up to MaxRows different reviews, in any order
RowChoices ==
    {q \in UNION {[1..n -> ViewReviews] : n \in 0..MaxRows} :
        \A i, j \in 1..Len(q) : i < j => q[i] # q[j]}

ViewTerms == {<<>>, <<"C","A","F">>, <<"R"," ","O">>}
ViewTypes == {"", "food"}
ViewCats == {<<>>, <<"C","A","F","E">>, <<"b","r","u","n","c","h">>}
ViewSortKeys == SortKeys \cup {"created"}

viewFixed == <<editing, viewing, token, user, authError, authBusy, apiStatus, form,
               apiCheckInFlight, refreshRetryRef, authToken, storedToken, storedUser,
               probers, inflight, timers, listCalls, mountPc, envVars, clicks>>

\* A signed-in user whose list has been loaded, with the default criteria
ViewInit ==
    /\ rows \in RowChoices
    /\ term = <<>> /\ type = "" /\ sortBy = "updated" /\ activeCat = <<>>
    /\ editing = NoReview /\ viewing = NoReview /\ form = NoReview
    /\ token = TokenNames[1] /\ authToken = token /\ storedToken = token
    /\ user = "ann" /\ storedUser = user /\ sessions = <<"ann">>
    /\ authError = <<>> /\ authBusy = FALSE /\ apiStatus = "ready"
    /\ apiCheckInFlight = FALSE /\ refreshRetryRef = 0
    /\ mountPc = "done" /\ probers = <<>> /\ inflight = <<>> /\ timers = {}
    /\ listCalls = 1 /\ clicks = 0
    /\ svc = "up" /\ db = InitialDb /\ nextId = 2 /\ storageOk = TRUE

\* setRows(data) of a later list answer: a review has been added to the
\* Collection, or one has been removed from it
ViewLoad ==
    /\ rows' \in {q \in RowChoices :
                    \/ Len(q) = Len(rows) + 1 /\ SubSeq(q, 1, Len(rows)) = rows
                    \/ \E i \in 1..Len(rows) : q = Without(rows, i)}
    /\ UNCHANGED <<term, type, sortBy, activeCat, viewFixed>>

\* setTerm(e.target.value)
ViewSetTerm ==
    /\ term' \in ViewTerms \ {term}
    /\ UNCHANGED <<rows, type, sortBy, activeCat, viewFixed>>

\* setType(e.target.value)
ViewSetType ==
    /\ type' \in ViewTypes \ {type}
    /\ UNCHANGED <<rows, term, sortBy, activeCat, viewFixed>>

\* setSortBy(e.target.value)
ViewSetSortBy ==
    /\ sortBy' \in ViewSortKeys \ {sortBy}
    /\ UNCHANGED <<rows, term, type, activeCat, viewFixed>>

\* setActiveCat(...)
ViewSetActiveCat ==
    /\ activeCat' \in ViewCats \ {activeCat}
    /\ UNCHANGED <<rows, term, type, sortBy, viewFixed>>

ViewNext ==
    \/ ViewLoad
    \/ ViewSetTerm
    \/ ViewSetType
    \/ ViewSetSortBy
    \/ ViewSetActiveCat

ViewSpec == ViewInit /\ [][ViewNext]_vars

(***************************************************************************)
(* Session properties                                                      *)
(***************************************************************************)
\* The state after a full teardown: no token in memory, in api.js or in
\* storage, no user, nothing listed, default criteria, nothing open, idle.
TornDown ==
    /\ token = NoToken /\ authToken = NoToken /\ storedToken = NoToken
    /\ user = null /\ storedUser = null
    /\ rows = <<>>
    /\ term = "" /\ type = "" /\ sortBy = "updated" /\ activeCat = ""
    /\ editing = NoReview /\ viewing = NoReview
    /\ apiStatus = "idle"

C2_SessionAllOrNothing ==
    \/ token # NoToken /\ user # null
    \/ /\ token = NoToken /\ user = null
       /\ rows = <<>>
       /\ editing = NoReview /\ viewing = NoReview
       /\ term = "" /\ type = "" /\ sortBy = "updated" /\ activeCat = ""

\* C3: every request to the review endpoints that is out left with a token.
C3_ReviewRequestsCarryToken ==
    \A i \in 1..Len(inflight) :
        inflight[i].kind \in {"list", "create", "update", "delete"}
            => inflight[i].sent # NoToken

C5_AuthFailureKeepsSession ==
    [][\A i \in 1..Len(inflight) : \A err \in Failures(svc) :
        AuthFailAt(i, err) =>
            /\ UNCHANGED <<token, authToken, storedToken, user, storedUser>>
            /\ UNCHANGED <<rows, term, type, sortBy, activeCat>>
            /\ authError' # <<>>]_vars

\* A login has failed with an HTTP error whose body carried a detail: the
\* form shows it, is no longer busy, and there is still no session.
C5_Witness ==
    /\ authError = <<"b","a","d">>
    /\ ~authBusy
    /\ token = NoToken /\ user = null
    /\ \A i \in 1..Len(inflight) : inflight[i].kind \notin {"login", "register"}

\* C6: an HTTP 401 answer to a list, create, update or delete request tears
\* the session down, starts no prober, schedules no retry and sends nothing.
C6_UnauthorizedTearsDown ==
    [][\A i \in 1..Len(inflight), b \in Bodies :
        (\/ ListFailAt(i, HttpError(401, b))
         \/ SaveFailAt(i, HttpError(401, b))
         \/ DeleteFailAt(i, HttpError(401, b))) =>
            /\ TornDown'
            /\ probers' = probers /\ apiCheckInFlight' = apiCheckInFlight
            /\ timers' = timers /\ refreshRetryRef' = refreshRetryRef
            /\ inflight' = Without(inflight, i)]_vars

\* A restored session has been torn down by the answer to the list request of
\* the mount: the user never acted, the first probe is still out, no prober
\* runs and no timer is pending.
C6_Witness ==
    /\ TornDown
    /\ clicks = 0 /\ svc = "up" /\ sessions = <<"ann">>
    /\ inflight = <<>> /\ probers = <<>> /\ timers = {}
    /\ mountPc = "probe"

(***************************************************************************)
(* Prober properties                                                       *)
(***************************************************************************)
\* C7: at most one waitForApi sequence runs; a caller that finds one in
\* flight (the mount effect, refresh, handleAuthSubmit, handleDelete) starts
\* none, issues no probe and, having got false, schedules no retry: with a
\* sequence in flight, a step that changes the sequences or the timers is
\* not a step of one of these callers.
C7_SingleFlight ==
    /\ [](Len(probers) <= 1)
    /\ [][apiCheckInFlight /\ (probers' # probers \/ timers' # timers) =>
            ~(MountProbeDone \/ ListFail \/ AuthFail \/ DeleteFail)]_vars

\* The list request of a restored session failed while the sequence started
\* by the mount effect was at its first probe: still that one sequence, no
\* timer, and the session is kept.
C7_Witness ==
    /\ Len(probers) = 1
    /\ probers[1] = Sequence(NoWaiter)
    /\ apiCheckInFlight /\ apiStatus = "booting"
    /\ mountPc = "done" /\ svc = "cold" /\ clicks = 0
    /\ token # NoToken /\ inflight = <<>> /\ rows = <<>> /\ timers = {}

\* C8: a sequence starts in booting at attempt 0, probes one at a time, makes
\* at most 12 attempts, ends at the first success with ready (its awaiting
\* refresh gets true: a retry is scheduled), ends after the 12th failure with
\* error (false: no retry), and always ends.
C8_ProberBoundedAndTerminates ==
    /\ [](\A k \in 1..Len(probers) : probers[k].attempt \in 0..(attempts - 1))
    /\ [][Len(probers') > Len(probers) =>
            /\ apiStatus' = "booting"
            /\ \E waiter \in {NoWaiter} \cup Tokens :
                  probers' = Append(probers, Sequence(waiter))]_vars
    /\ [][\A k \in 1..Len(probers) :
            /\ ProbeAt(k, TRUE) =>
                  /\ apiStatus' = "ready"
                  /\ probers' = Without(probers, k) /\ ~apiCheckInFlight'
                  /\ probers[k].waiter # NoWaiter =>
                        \E t \in timers' : t.tok = probers[k].waiter
                                            /\ t.h = refreshRetryRef'
            /\ ProbeAt(k, FALSE) =>
                  /\ probers' = [probers EXCEPT ![k].pc = "sleep"]
                  /\ apiStatus' = apiStatus
            /\ SleepDoneAt(k) =>
                  IF probers[k].attempt < attempts - 1
                  THEN /\ probers' = [probers EXCEPT ![k].pc = "probe",
                                                      ![k].attempt = @ + 1]
                       /\ apiStatus' = apiStatus
                  ELSE /\ apiStatus' = "error"
                       /\ probers' = Without(probers, k) /\ ~apiCheckInFlight'
                       /\ timers' = timers]_vars
    /\ (probers # <<>>) ~> (probers = <<>>)

\* The sequence started by the mount effect has ended after twelve failed
\* probes: nobody is signed in, the user never acted, the service is asleep.
C8_Witness ==
    /\ apiStatus = "error"
    /\ probers = <<>> /\ ~apiCheckInFlight
    /\ mountPc = "done" /\ svc = "cold"
    /\ clicks = 0 /\ token = NoToken /\ sessions = <<>>

(***************************************************************************)
(* Recovery from a sleeping service                                        *)
(***************************************************************************)
\* The errors the claim calls service-unavailable: a transport failure, or an
\* HTTP answer whose status is one of the startup codes.
ServiceUnavailable ==
    {FailedToFetch} \cup {HttpError(code, b) : code \in STARTUP_ERROR_CODES, b \in Bodies}

\* C9: a refresh that fails with a service-unavailable error calls waitForApi
\* (a new sequence awaited by this refresh, or none when one is in flight,
\* and no retry yet); a sequence that ends ready schedules for its awaiting
\* refresh exactly one retry, replacing the pending one; one that ends in
\* error schedules none.
C9_UnavailableTriggersProber ==
    /\ [][\A i \in 1..Len(inflight) : \A err \in ServiceUnavailable :
            ListFailAt(i, err) =>
                /\ timers' = timers
                /\ token' = token
                /\ IF apiCheckInFlight THEN probers' = probers
                   ELSE /\ probers' = Append(probers, Sequence(inflight[i].tok))
                        /\ apiStatus' = "booting"]_vars
    /\ [][\A k \in 1..Len(probers) :
            /\ ProbeAt(k, TRUE) /\ probers[k].waiter # NoWaiter =>
                  \E t \in timers' :
                      /\ t.tok = probers[k].waiter /\ t.h = refreshRetryRef'
                      /\ timers' = {u \in timers : u.h # refreshRetryRef} \cup {t}
            /\ SleepDoneAt(k) => timers' = timers]_vars

\* C10: for a signed-in user whose list request met the sleeping service, the
\* Collection is eventually populated without any action of the user, unless
\* the session ended or the prober ran out of attempts before the service
\* was up.
C10_CollectionEventuallyLoads ==
    <>(rows # <<>> \/ token = NoToken \/ apiStatus = "error")

(***************************************************************************)
(* Retries                                                                 *)
(***************************************************************************)
\* C11: as long as the user has not acted and the session is the one the
\* page started with, at most two list requests have been sent: that of the
\* mount and one automatic retry.
C11_AtMostOneAutomaticRetry ==
    clicks = 0 /\ token # NoToken => listCalls <= 2

\* C12: a sequence that ends after its twelfth failed probe leaves the status
\* error and schedules no retry; and from then on, for a signed-in user whose
\* service is still asleep, with no request out and no timer pending, a step
\* that is neither an action of the user nor a change of token starts no
\* sequence, sends no request and sets no timer.
C12_ExhaustedStaysQuiet ==
    /\ [][\A k \in 1..Len(probers) :
            SleepDoneAt(k) /\ probers[k].attempt = attempts - 1 =>
                /\ apiStatus' = "error"
                /\ timers' = timers /\ inflight' = inflight
                /\ probers' = Without(probers, k)]_vars
    /\ [][(/\ svc = "cold" /\ token # NoToken
           /\ apiStatus = "error" /\ probers = <<>>
           /\ inflight = <<>> /\ timers = {}
           /\ clicks' = clicks /\ token' = token) =>
                probers' = <<>> /\ inflight' = <<>> /\ timers' = {}]_vars

\* C13: at most one retry timer is pending, and it is the one the handle
\* names; scheduling a retry replaces the pending timer; the handle is
\* cleared when the timer fires.
C13_OneRetryTimer ==
    /\ [](IF timers = {} THEN refreshRetryRef = 0
           ELSE \E t \in timers : timers = {t} /\ refreshRetryRef = t.h)
    /\ [][\A k \in 1..Len(probers) :
            ProbeAt(k, TRUE) /\ probers[k].waiter # NoWaiter =>
                /\ Cardinality(timers') = 1
                /\ \A t \in timers' : t.tok = probers[k].waiter]_vars
    /\ [][\A t \in timers :
            RetryFireAt(t) => refreshRetryRef' = 0 /\ timers' = {}]_vars

\* A retry is pending, and a later refresh (the one that follows a save)
\* awaits a sequence at a probe the service can answer: its retry will
\* replace the pending one.
C13_Witness ==
    /\ timers # {}
    /\ Len(probers) = 1 /\ probers[1].waiter # NoWaiter /\ probers[1].pc = "probe"
    /\ svc = "up"

(***************************************************************************)
(* Classification of failures                                              *)
(***************************************************************************)
\* The statuses an error answer has in this model
ErrorStatuses == {401, 500, 503}

\* C14: what the catch-branch of refresh does with a failure depends on the
\* status alone, whatever the body: 401 ends the session; a startup status
\* or a transport failure calls the prober and keeps the session; any other
\* status sets the status error and keeps the session.  (Observed for a
\* signed-in user with no sequence in flight, where the three differ.)
C14_ClassifiedByStatus ==
    [][\A i \in 1..Len(inflight) :
        token # NoToken /\ ~apiCheckInFlight =>
            /\ \A st \in ErrorStatuses, b \in Bodies :
                  ListFailAt(i, HttpError(st, b)) =>
                      IF st = 401
                      THEN token' = NoToken /\ probers' = probers
                      ELSE IF st \in STARTUP_ERROR_CODES
                      THEN token' = token /\ Len(probers') = Len(probers) + 1
                      ELSE token' = token /\ probers' = probers
                           /\ apiStatus' = "error"
            /\ ListFailAt(i, FailedToFetch) =>
                  token' = token /\ Len(probers') = Len(probers) + 1]_vars

(***************************************************************************)
(* api.js                                                                  *)
(***************************************************************************)
\* C15: checkApiReady always yields a boolean: true exactly when GET /health
\* is answered with a success status, false for every other status and for a
\* rejected fetch; and the probe of a running sequence leaves without an
\* Authorization header, whatever the module token is.
C15_CheckApiReadyTotal ==
    /\ \A outcome \in HealthOutcomes :
          /\ checkApiReady(outcome) \in BOOLEAN
          /\ checkApiReady(outcome) <=>
                (~outcome.rejected /\ outcome.status >= 200 /\ outcome.status <= 299)
    /\ HealthAnswers \subseteq BOOLEAN
    /\ \A k \in 1..Len(probers) : probers[k].probe.sent = NoToken

\* A signed-in user whose list is loaded (the service is up) while a
\* sequence waits after a probe that came back false.
C15_Witness ==
    /\ authToken # NoToken /\ rows # <<>> /\ svc = "up"
    /\ Len(probers) = 1 /\ probers[1].pc = "sleep"
    /\ probers[1].probe.sent = NoToken

\* A step in which http() was called: a request joined those in flight
\* (alone, or while the answered one left).
Issued ==
    \/ Len(inflight') > Len(inflight)
    \/ Len(inflight') = Len(inflight) /\ inflight' # inflight

\* C16: a request leaves with the module token as it is at the moment it is
\* issued: Authorization: Bearer t when that token t is non-empty, no
\* Authorization when it is empty; in particular, once setAuthToken("") has
\* run no new request carries the earlier token.
C16_AuthorizationIsModuleToken ==
    [][Issued => inflight'[Len(inflight')].sent = authToken']_vars

\* After the teardown of the session of tok1, a refresh of a closure that
\* still holds tok1 has sent its list request: it left without Authorization.
C16_Witness ==
    /\ authToken = NoToken
    /\ Len(inflight) = 1
    /\ inflight[1].kind = "list" /\ inflight[1].tok = TokenNames[1]
    /\ inflight[1].sent = NoToken

(***************************************************************************)
(* refresh                                                                 *)
(***************************************************************************)
\* C17: the refresh that runs when the token has become empty sends no
\* request and leaves the Collection empty, the detail view closed and the
\* status idle.
C17_RefreshWithoutToken ==
    [][token # NoToken /\ token' = NoToken =>
        /\ ~Issued
        /\ rows' = <<>> /\ viewing' = NoReview /\ apiStatus' = "idle"]_vars

\* The user signed out and the sign-out has settled: the refresh of the
\* render without token has run, and nothing is in flight.
C17_Witness ==
    /\ token = NoToken /\ authToken = NoToken
    /\ rows = <<>> /\ viewing = NoReview /\ apiStatus = "idle"
    /\ clicks = 1 /\ svc = "up" /\ sessions = <<"ann">>
    /\ inflight = <<>> /\ mountPc = "done"

\* C18: a list request answered with a success replaces the Collection by
\* exactly the sequence the server returned (nothing of the old Collection
\* stays), or by the empty Collection when the answer is not an array, and
\* sets the status ready.
C18_ListReplacesCollection ==
    [][\A i \in 1..Len(inflight), isArray \in BOOLEAN :
        ListOkAt(i, isArray) =>
            /\ rows' = IF isArray THEN inflight[i].data ELSE <<>>
            /\ apiStatus' = "ready"]_vars

\* After the user deleted their only review the list was fetched again and
\* came back empty: the Collection, which held the review, is empty.
C18_Witness ==
    /\ token # NoToken /\ apiStatus = "ready"
    /\ db = {} /\ rows = <<>>
    /\ clicks = 1 /\ inflight = <<>>

(***************************************************************************)
(* The list on screen                                                      *)
(***************************************************************************)
\* Two characters that are the same letter, whatever their case
SameLetter(c, d) == toLowerCase(<<c>>) = toLowerCase(<<d>>)

\* Two texts equal up to the case of their letters
EqualIgnoringCase(a, b) ==
    Len(a) = Len(b) /\ \A k \in 1..Len(a) : SameLetter(a[k], b[k])

\* needle occurs in hay, up to the case of the letters
ContainedIgnoringCase(needle, hay) ==
    \E i \in 0..(Len(hay) - Len(needle)) :
        \A k \in 1..Len(needle) : SameLetter(hay[i + k], needle[k])

\* The three predicates of the View Criteria, for one review
Satisfies(r) ==
    /\ \/ term = <<>>
       \/ ContainedIgnoringCase(term,
              r.title \o <<" ">> \o r.notes \o <<" ">> \o r.address \o <<" ">>
                      \o r.category \o <<" ">> \o r.website)
    /\ (type = "" \/ r.type = type)
    /\ \/ activeCat = <<>>
       \/ \E k \in 1..Len(split(r.category)) :
              EqualIgnoringCase(Trim(split(r.category)[k]), activeCat)

\* C19: the filtered list holds exactly the reviews of the collection that
\* satisfy the search term, the type filter and the category filter: each
\* element is a review of the collection that satisfies all three, every
\* review that satisfies them is in the list, and none is there twice.
C19_FilteredExactlyThePassing ==
    LET out == filtered(Cur)
        passing == {i \in 1..Len(rows) : Satisfies(rows[i])}
    IN  /\ \A j \in 1..Len(out) : \E i \in passing : out[j] = rows[i]
        /\ \A i \in passing : \E j \in 1..Len(out) : out[j] = rows[i]
        /\ Len(out) = Cardinality(passing)

\* All three criteria are set; the list keeps the review whose category
\* " cafe ,,x" has to be split, trimmed and compared without regard to case,
\* and drops "Cafe", a food review that matches the term but not the category
C19_Witness ==
    /\ term = <<"C","A","F">> /\ type = "food" /\ activeCat = <<"C","A","F","E">>
    /\ Len(rows) > 2
    /\ \E i \in 1..Len(rows) : rows[i].id = 1
    /\ Len(filtered(Cur)) = 1
    /\ filtered(Cur)[1].id = 4

\* C20: the filtered list is ordered by the sort key: rating non-increasing
\* (a missing rating counts as 0), title non-decreasing, date non-increasing,
\* and for "updated" or any other key the updated timestamp non-increasing,
\* the reviews without one after all those that have one.
C20_OrderedBySortKey ==
    LET out == filtered(Cur) IN
    /\ \A j \in 1..(Len(out) - 1) :
          IF sortBy = "rating"
          THEN (IF out[j].rating = <<>> THEN 0 ELSE out[j].rating[1])
                 >= (IF out[j + 1].rating = <<>> THEN 0 ELSE out[j + 1].rating[1])
          ELSE IF sortBy = "title"
          THEN localeCompare(out[j].title, out[j + 1].title) <= 0
          ELSE IF sortBy = "date"
          THEN localeCompare(out[j].date, out[j + 1].date) >= 0
          ELSE localeCompare(out[j].updated, out[j + 1].updated) >= 0
    /\ sortBy \notin {"rating", "title", "date"} =>
          \A i, j \in 1..Len(out) :
              i < j /\ out[i].updated = <<>> => out[j].updated = <<>>

\* Under a key that is none of the four, a collection that arrived with a
\* review without timestamp first is shown with that review last
C20_Witness ==
    /\ sortBy = "created"
    /\ Len(rows) > 2 /\ rows[1].updated = <<>>
    /\ Len(filtered(Cur)) = Len(rows)
    /\ filtered(Cur)[1].updated # <<>>
    /\ filtered(Cur)[Len(rows)].updated = <<>>

\* The value a review is sorted by under the current key
SortValue(r) ==
    IF sortBy = "rating" THEN <<IF r.rating = <<>> THEN 0 ELSE r.rating[1]>>
    ELSE IF sortBy = "title" THEN r.title
    ELSE IF sortBy = "date" THEN r.date
    ELSE r.updated

\* Where a review stands in a list that holds it
PositionIn(list, r) == CHOOSE j \in 1..Len(list) : list[j] = r

\* C21: sorting is idempotent and stable under each sort key: sorting the
\* list on screen again gives the same list, and two reviews with the same
\* value of the key stand in the order they have in the Collection.
C21_SortIdempotentAndStable ==
    LET out == filtered(Cur)
        listed == {i \in 1..Len(rows) : \E j \in 1..Len(out) : out[j] = rows[i]}
    IN  /\ sort(out, sortBy) = out
        /\ \A i, j \in listed :
              i < j /\ SortValue(rows[i]) = SortValue(rows[j])
                  => PositionIn(out, rows[i]) < PositionIn(out, rows[j])

\* Sorted by rating, two reviews rated 5 follow each other in the order of the
\* Collection, "apple" before "Cafe", behind them the review that came first
C21_Witness ==
    /\ sortBy = "rating" /\ Len(rows) > 2
    /\ rows[1].id = 3 /\ rows[2].id = 4 /\ rows[3].id = 1
    /\ Len(filtered(Cur)) = Len(rows)
    /\ filtered(Cur)[1].id = 4 /\ filtered(Cur)[2].id = 1

(***************************************************************************)
(* The derived categories                                                  *)
(***************************************************************************)
\* The category tokens of the Collection: the pieces between the commas of
\* every category, without the blanks around them, the empty ones left out
CategoryTokens ==
    UNION {{Trim(split(rows[i].category)[k]) : k \in 1..Len(split(rows[i].category))} :
              i \in 1..Len(rows)} \ {<<>>}

\* C22: the derived categories hold every comma-split, trimmed, non-empty
\* category token of the Collection and nothing else, none twice, in ascending
\* order.
C22_CategoriesAreTheTokens ==
    LET out == categories(rows) IN
    /\ {out[j] : j \in 1..Len(out)} = CategoryTokens
    /\ Len(out) = Cardinality(CategoryTokens)
    /\ \A j \in 1..(Len(out) - 1) : localeCompare(out[j], out[j + 1]) < 0

\* A Collection whose categories are " cafe ,,x", none, and "Coffee, Brunch":
\* four categories, the blanks and the empty token gone, in ascending order
C22_Witness ==
    /\ Len(rows) = 3
    /\ rows[1].id = 4 /\ rows[2].id = 3 /\ rows[3].id = 1
    /\ categories(rows) =
          << <<"B","r","u","n","c","h">>, <<"c","a","f","e">>,
             <<"C","o","f","f","e","e">>, <<"x">> >>

\* C23: category tokens that differ only in the case of their letters are one
\* entry of the derived categories; the reviews "Coffee, Brunch" and
\* "brunch, Dessert" give three categories.
C23_CaseVariantsAreOneCategory ==
    LET out == categories(rows) IN
    /\ \A i, j \in 1..Len(out) : i # j => ~EqualIgnoringCase(out[i], out[j])
    /\ Len(rows) = 2 /\ rows[1].id = 1 /\ rows[2].id = 2 => Len(out) = 3

(***************************************************************************)
(* Deleting                                                                *)
(***************************************************************************)
\* How many DELETE requests are in flight
DeletesIn(q) == Cardinality({i \in 1..Len(q) : q[i].kind = "delete"})

\* C24: a DELETE request is issued only after the user confirms the deletion;
\* a declined confirmation sends nothing and leaves the token, the Collection,
\* the detail view, the View Criteria and the availability status as they are.
C24_DeleteNeedsConfirmation ==
    [][/\ DeletesIn(inflight') > DeletesIn(inflight) =>
             \E review \in Deletable(Cur) : DeleteClickAt(review, TRUE)
       /\ \A review \in Deletable(Cur) :
             DeleteClickAt(review, FALSE) =>
                 /\ inflight' = inflight
                 /\ token' = token /\ authToken' = authToken
                 /\ rows' = rows /\ viewing' = viewing
                 /\ term' = term /\ type' = type /\ sortBy' = sortBy
                 /\ activeCat' = activeCat
                 /\ apiStatus' = apiStatus]_vars

\* The user looked at their review, pressed Delete in the detail view and
\* declined: the detail view is still open and nothing is in flight
C24_Witness ==
    /\ clicks = 2 /\ token # NoToken /\ apiStatus = "ready"
    /\ viewing # NoReview /\ editing = NoReview
    /\ Len(rows) = 1 /\ db = InitialDb
    /\ inflight = <<>> /\ mountPc = "done"
    /\ term = "" /\ type = "" /\ sortBy = "updated" /\ activeCat = ""

\* The ids of the reviews of a list, and of the reviews the service holds
IdsOf(list) == {list[k].id : k \in 1..Len(list)}
StoredIds == {r.id : r \in db}

\* A list request whose answer does not hold review id is in flight
AnswerWithout(id) ==
    \E i \in 1..Len(inflight) :
        inflight[i].kind = "list" /\ id \notin IdsOf(inflight[i].data)

C26_AuthRetriedWhenWarm ==
    [][/\ \A i \in 1..Len(inflight), err \in Failures(svc) :
             AuthFailAt(i, err) /\ isLikelyBootingError(err) /\ ~apiCheckInFlight =>
                 apiCheckInFlight' /\ apiStatus' = "booting" /\ Len(probers') = 1
       /\ \A k \in 1..Len(probers) :
             ProbeAt(k, TRUE) /\ sessions = <<>> /\ mountPc = "probe" =>
                 \/ timers' # {}
                 \/ \E i \in 1..Len(inflight') :
                        inflight'[i].kind \in {"login", "register"}]_vars

(***************************************************************************)
(* Overlapping list requests                                               *)
(***************************************************************************)
\* C27: when list requests overlap, the answer that arrives sets the
\* Collection whatever its place among the requests in flight, and the other
\* requests stay in flight, so that the Collection ends as the answer that
\* arrives last; the stale outcome is the state of C27_Witness.
C27_LastAnswerWins ==
    [][\A i \in 1..Len(inflight) :
          ListOkAt(i, TRUE) =>
              /\ rows' = inflight[i].data
              /\ inflight' = Without(inflight, i)]_vars

\* The list request of the mount was answered after the one that followed the
\* user's save: nothing is in flight, the status is ready, and the Collection
\* shows one review while the service holds two for this user
C27_Witness ==
    /\ token # NoToken /\ apiStatus = "ready"
    /\ inflight = <<>> /\ timers = {} /\ probers = <<>>
    /\ Len(rows) = 1
    /\ Len(ServerList(db, sessions, authToken)) = 2

(***************************************************************************)
(* Other failures and the readiness gate                                   *)
(***************************************************************************)
\* C28: a list request that fails with an error that is neither 401 nor
\* service-unavailable (here: status 500, whatever the body) sets the
\* availability status to error and leaves the Collection, the session and
\* the View Criteria as they are; it starts no prober sequence and schedules
\* no retry.
C28_OtherFailureOnlySetsError ==
    [][\A i \in 1..Len(inflight), b \in Bodies :
          ListFailAt(i, HttpError(500, b)) =>
              /\ apiStatus' = "error"
              /\ rows' = rows
              /\ token' = token /\ user' = user /\ authToken' = authToken
              /\ storedToken' = storedToken /\ storedUser' = storedUser
              /\ term' = term /\ type' = type /\ sortBy' = sortBy
              /\ activeCat' = activeCat
              /\ probers' = probers /\ apiCheckInFlight' = apiCheckInFlight
              /\ timers' = timers]_vars

\* C29: no list request is sent while the availability status is booting,
\* before and after the step that would send it.
C29_NoListWhileBooting ==
    [][apiStatus = "booting" /\ apiStatus' = "booting" =>
          Cardinality({i \in 1..Len(inflight') : inflight'[i].kind = "list"})
              <= Cardinality({i \in 1..Len(inflight) : inflight[i].kind = "list"})]_vars

(***************************************************************************)
(* The editor's draft                                                      *)
(***************************************************************************)
\* C30: whenever Add or Edit selects a review or the empty template, the
\* draft of the editor is that selection, also when the editor is already
\* open on another review.
C30_DraftIsTheSelection ==
    [][/\ \A review \in Shown(Cur) \cup {Template} :
             EditClickAt(review) => editing' = review /\ form' = review
       /\ ViewEditClick => editing' = viewing /\ form' = viewing]_vars

(***************************************************************************)
(* Saving                                                                  *)
(***************************************************************************)
\* C31: each submit of the editor issues exactly one request, which carries
\* the whole draft and an updated stamp of the moment of the submit, later
\* than that of every save still in flight: an update of the draft's id when
\* the draft has an id, and never a create; otherwise a create stamped created
\* at the same moment, and never an update.
C31_SubmitSendsOneSave ==
    [][EditorSubmit =>
          /\ Len(inflight') = Len(inflight) + 1
          /\ SubSeq(inflight', 1, Len(inflight)) = inflight
          /\ LET op == inflight'[Len(inflight')] IN
                /\ op.review = form
                /\ op.stamps.updated = clicks'
                /\ \A i \in 1..Len(inflight) :
                       inflight[i].stamps.updated < op.stamps.updated
                /\ IF form.id > 0
                   THEN /\ op.kind = "update" /\ op.review.id = form.id
                        /\ op.stamps.created = 0
                   ELSE /\ op.kind = "create"
                        /\ op.stamps.created = op.stamps.updated]_vars

\* The user saved their review twice: two updates of review 1 are in flight,
\* each with the whole draft, stamped at the first and at the second action
C31_Witness ==
    /\ Len(inflight) = 2 /\ clicks = 2
    /\ inflight[1].kind = "update" /\ inflight[2].kind = "update"
    /\ inflight[1].review = form /\ inflight[2].review = form /\ form.id = 1
    /\ inflight[1].stamps = [updated |-> 1, created |-> 0]
    /\ inflight[2].stamps = [updated |-> 2, created |-> 0]

\* The failures of a save that are not a 401
OtherSaveFailures ==
    {FailedToFetch} \cup {HttpError(st, b) : st \in {500, 503}, b \in Bodies}

\* C32: when a save is answered with a success the editor closes and refresh
\* is called once (one list request leaves); answered with a 401 the session
\* is torn down, the editor with it; when it fails in any other way the
\* editor and its draft stay as they are, nothing is sent, and the
\* Collection and the session are unchanged.
C32_AfterSubmit ==
    [][\A i \in 1..Len(inflight) :
          /\ SaveOkAt(i) =>
                /\ editing' = NoReview
                /\ Len(inflight') = Len(inflight)
                /\ SubSeq(inflight', 1, Len(inflight) - 1) = Without(inflight, i)
                /\ inflight'[Len(inflight')].kind = "list"
          /\ \A b \in Bodies :
                SaveFailAt(i, HttpError(401, b)) =>
                    TornDown' /\ inflight' = Without(inflight, i)
          /\ \A err \in OtherSaveFailures :
                SaveFailAt(i, err) =>
                    /\ editing' = editing /\ form' = form
                    /\ inflight' = Without(inflight, i)
                    /\ rows' = rows
                    /\ token' = token /\ user' = user /\ authToken' = authToken
                    /\ storedToken' = storedToken /\ storedUser' = storedUser]_vars

C34_ViewFollowsCollection ==
    /\ [](viewing = NoReview \/ \E k \in 1..Len(rows) : rows[k] = viewing)
    /\ [][\A i \in 1..Len(inflight) :
            /\ \A isArray \in BOOLEAN :
                  ListOkAt(i, isArray) /\ viewing # NoReview =>
                      IF viewing.id \in IdsOf(rows')
                      THEN viewing'.id = viewing.id
                           /\ \E k \in 1..Len(rows') : rows'[k] = viewing'
                      ELSE viewing' = NoReview
            /\ DeleteOkAt(i) /\ viewing # NoReview
                  /\ viewing.id = inflight[i].review.id => viewing' = NoReview]_vars

\* The user has deleted their only review and looked at it: the list that
\* was fetched after the delete has arrived empty, and the detail view is
\* closed
C34_Witness ==
    /\ clicks = 2 /\ token # NoToken /\ apiStatus = "ready"
    /\ db = {} /\ rows = <<>> /\ viewing = NoReview
    /\ inflight = <<>> /\ mountPc = "done" /\ svc = "up"

(***************************************************************************)
(* Answers that outlive their session                                      *)
(***************************************************************************)
\* C35: the Collection holds only what a list request of the current session
\* returned: the answer to a list request that left with another token than
\* the current one (its session was logged out or torn down, or somebody
\* else has signed in since) is not applied, and every review of the
\* Collection belongs to the user signed in.
C35_CollectionOfCurrentSession ==
    /\ [](\A k \in 1..Len(rows) : token # NoToken /\ rows[k].owner = user)
    /\ [][\A i \in 1..Len(inflight), isArray \in BOOLEAN :
            ListOkAt(i, isArray) /\ inflight[i].sent # token => rows' = rows]_vars

\* C36: a 401 ends only the session whose token left with the failing
\* request: when the request left with another token than the current one
\* (it was issued before the present login), the token and the user of the
\* current session stay.
C36_UnauthorizedEndsOnlyItsSession ==
    [][\A i \in 1..Len(inflight), b \in Bodies :
          /\ token # NoToken /\ inflight[i].sent # token
          /\ \/ ListFailAt(i, HttpError(401, b))
             \/ SaveFailAt(i, HttpError(401, b))
             \/ DeleteFailAt(i, HttpError(401, b))
          => token' = token /\ authToken' = authToken /\ user' = user]_vars

(***************************************************************************)
(* The guard of the prober                                                 *)
(***************************************************************************)
\* C37: the in-flight flag of waitForApi is set exactly while a sequence
\* runs: it is released when the sequence ends, with a successful probe as
\* after the twelfth failed one, and a trigger that finds the flag released
\* (the mount effect after a failed probe, or a list, sign-in or delete
\* request failing with a booting error) starts a new sequence at its first
\* probe.
C37_GuardSetWhileRunning ==
    /\ [](apiCheckInFlight <=> probers # <<>>)
    /\ [][\A k \in 1..Len(probers) :
            /\ ProbeAt(k, TRUE) => ~apiCheckInFlight' /\ probers' = <<>>
            /\ SleepDoneAt(k) /\ probers[k].attempt = attempts - 1 =>
                  ~apiCheckInFlight' /\ probers' = <<>>]_vars
    /\ [][~apiCheckInFlight =>
            /\ MountProbeAt(FALSE) =>
                  apiCheckInFlight' /\ probers' = <<Sequence(NoWaiter)>>
            /\ \A i \in 1..Len(inflight), err \in Failures(svc) :
                  isLikelyBootingError(err) =>
                      /\ ListFailAt(i, err) /\ ~Mentions401(err) =>
                            apiCheckInFlight' /\ probers' = <<Sequence(inflight[i].tok)>>
                      /\ DeleteFailAt(i, err) /\ ~Mentions401(err) =>
                            apiCheckInFlight' /\ probers' = <<Sequence(NoWaiter)>>
                      /\ AuthFailAt(i, err) =>
                            apiCheckInFlight' /\ probers' = <<Sequence(NoWaiter)>>]_vars

\* The sequence that a failed list request awaited has ended with a
\* successful probe (its retry is pending), and the mount effect, whose own
\* probe failed afterwards, has started a new sequence
C37_Witness ==
    /\ apiCheckInFlight /\ probers = <<Sequence(NoWaiter)>>
    /\ apiStatus = "booting" /\ mountPc = "done"
    /\ timers # {} /\ clicks = 0 /\ token # NoToken /\ inflight = <<>>

(***************************************************************************)
(* The category filter                                                     *)
(***************************************************************************)
\* C38: the active category filter is empty or one of the categories
\* derived from the current Collection.
C38_ActiveCatIsACategory ==
    activeCat = "" \/ activeCat \in CategoryButtons(Cur)

====
